---- MODULE Spec2Model ----
(***************************************************************************)
(* Model of atlas_paint.py: the AtlasModel buffer (a numpy array of shape  *)
(* (h, w, 4), dtype uint8, with the recorded w and h), its raw load/save,  *)
(* its three cell edits, valid_mask and the two places that dispatch on    *)
(* alpha when drawing (export_preview_image and _draw_cell).               *)
(***************************************************************************)
EXTENDS Integers, Sequences, FiniteSets, TLC

VARIABLES w, h, arr, ret, nops,
          file_path, mode, current_color, last_char,
          stamp_lines, stamp_w, stamp_h, stamp_space_clear

\* the fields of AtlasPaintApp beside self.model
appvars == <<file_path, mode, current_color, last_char,
             stamp_lines, stamp_w, stamp_h, stamp_space_clear>>

vars == <<w, h, arr, ret, nops, appvars>>

(* ----------------------------- bounds --------------------------------- *)

\* largest width and height drawn for construction and loading
MaxDim == 2

\* number of calls made on the model in one run
MaxOps == 2

\* number of events the application handles in one run
MaxEvents == 3

(* ------------------------- program constants -------------------------- *)

VISIBLE_ASCII_MIN == 32

VISIBLE_ASCII_MAX == 126

DEFAULT_CELL == 24

(* ------------------------------ inputs -------------------------------- *)

\* width/height arguments: negative, zero and positive integers
DimArgs == (-1)..MaxDim

\* coordinate arguments for an axis of length n: -1, every index of the
\* axis, and one beyond it
CoordArgs(n) == (-1)..n

\* rgb arguments (three bytes each)
RGBs == { <<10, 20, 30>>, <<1, 2, 3>> }

\* ch arguments of set_char, as sequences of code points: control 31,
\* ' ', 'A', '~', DEL 127, the euro sign, a two-character string
Strs == { <<31>>, <<32>>, <<65>>, <<126>>, <<127>>, <<8364>>, <<65, 66>> }

\* cells the sample files are made of: all alpha classes and their edges
SampleCells ==
  << <<0, 0, 0, 0>>,   <<9, 8, 7, 1>>,     <<5, 6, 7, 32>>,
     <<4, 4, 4, 200>>, <<1, 1, 1, 31>>,    <<2, 2, 2, 127>>,
     <<3, 3, 3, 126>>, <<6, 6, 6, 255>> >>

\* the n-byte file that starts at sample cell k and runs on cyclically
SampleFile(k, n) ==
  [i \in 1..n |->
     SampleCells[((k - 1 + ((i - 1) \div 4)) % Len(SampleCells)) + 1][((i - 1) % 4) + 1]]

\* file lengths: empty, ragged, and the well-formed lengths of the 1x1
\* grid, of one full row or column, and of the largest grid
FileLens == { 0, 3, 4, 4 * MaxDim, 4 * MaxDim * MaxDim }

Files == { SampleFile(k, n) : k \in {1, 5}, n \in FileLens }

\* pixel coordinates of a mouse event on an axis of n cells: one left of
\* the canvas, the last pixel of every cell, and the first pixel beyond
PixelArgs(n) ==
  { -1 } \cup { c * DEFAULT_CELL + (DEFAULT_CELL - 1) : c \in 0..(n - 1) } \cup { n * DEFAULT_CELL }

\* event.char of a key press: none (a modifier key), control 31, ' ', 'B',
\* '~', DEL 127, e-acute
KeyChars == { <<>>, <<31>>, <<32>>, <<66>>, <<126>>, <<127>>, <<233>> }

\* the clipboard: unreadable, empty, tab and newline only, text whose first
\* visible character is its second, the euro sign before '~'
Clipboards == { <<>>, << <<>> >>, << <<9, 10>> >>, << <<10, 67, 68>> >>, << <<8364, 126>> >> }

\* answers of the colour chooser: cancelled, or a colour
Colors == { <<>>, << <<10, 20, 30>> >> }

\* the values of the mode radio buttons
Modes == { "pencil", "text", "stamp" }

\* answers of a file dialog: cancelled, or a path
Paths == { "", "a.bin" }

\* the files the application opens: those that begin with an Invalid cell
AppFiles == { SampleFile(5, n) : n \in FileLens }

\* answers of askinteger(minvalue=1): cancelled, or an integer from 1 up
Asked == { <<>> } \cup { <<n>> : n \in 1..MaxDim }

\* text files, as their lines: empty; nothing visible; a blank line around
\* "A B" (with a tab dropped from it) and "C"; a lone '#'; rows with
\* leading spaces and a blank line between them
AsciiArts ==
  { <<>>,
    << <<9>>, <<>> >>,
    << <<>>, <<65, 32, 9, 66>>, <<67>>, <<>> >>,
    << <<35>> >>,
    << <<32, 35>>, <<>>, <<35>> >> }

(* ------------------------------ numpy --------------------------------- *)

\* exceptions, by what they report
NoError == [kind |-> "None", expected |-> 0, actual |-> 0]

Raise(k) == [kind |-> k, expected |-> 0, actual |-> 0]

\* an array of shape (H, W, 4): c[y][x] is the 4-tuple of bytes
Array(H, W, c) == [H |-> H, W |-> W, c |-> c]

\* np.zeros((h0, w0, 4), dtype=np.uint8): ValueError on a negative dimension
np_zeros(h0, w0) ==
  IF h0 < 0 \/ w0 < 0
    THEN [err |-> Raise("InvalidDimensions"), arr |-> Array(0, 0, <<>>)]
    ELSE [err |-> NoError,
          arr |-> Array(h0, w0, [y \in 0..(h0 - 1) |-> [x \in 0..(w0 - 1) |-> <<0, 0, 0, 0>>]])]

\* byte offset of channel ch (0..3) of cell (x, y) in a C-ordered buffer
Offset(W, x, y, ch) == (y * W + x) * 4 + ch

\* data.reshape((h0, w0, 4)) of a flat uint8 array: a negative dimension
\* other than a single inferable -1 is a ValueError, as is a size mismatch
reshape(data, h0, w0) ==
  LET n  == Len(data)
      hh == IF h0 = -1 /\ w0 > 0 /\ n % (w0 * 4) = 0 THEN n \div (w0 * 4) ELSE h0
      ww == IF w0 = -1 /\ h0 > 0 /\ n % (h0 * 4) = 0 THEN n \div (h0 * 4) ELSE w0
  IN IF hh < 0 \/ ww < 0 \/ hh * ww * 4 # n
       THEN [err |-> Raise("ReshapeError"), arr |-> Array(0, 0, <<>>)]
       ELSE [err |-> NoError,
             arr |-> Array(hh, ww,
                       [y \in 0..(hh - 1) |-> [x \in 0..(ww - 1) |->
                          << data[Offset(ww, x, y, 0) + 1], data[Offset(ww, x, y, 1) + 1],
                             data[Offset(ww, x, y, 2) + 1], data[Offset(ww, x, y, 3) + 1] >>]])]

\* a.astype(np.uint8).tofile(path): the bytes in C order
tofile(a) ==
  [i \in 1..(a.H * a.W * 4) |->
     a.c[(i - 1) \div (4 * a.W)][((i - 1) \div 4) % a.W][((i - 1) % 4) + 1] % 256]

\* numpy accepts index i on an axis of length n iff -n <= i < n
IndexOK(i, n) == (-n) <= i /\ i < n

\* a negative index counts from the end
Wrap(i, n) == IF i < 0 THEN i + n ELSE i

\* a[y, x] = cell, for an index numpy accepts
SetItem(a, y, x, cell) ==
  LET yy == Wrap(y, a.H)
      xx == Wrap(x, a.W)
  IN Array(a.H, a.W, [a.c EXCEPT ![yy] = [@ EXCEPT ![xx] = cell]])

\* a[y, x], for an index numpy accepts
GetItem(a, y, x) == a.c[Wrap(y, a.H)][Wrap(x, a.W)]

(* ---------------------------- AtlasModel ------------------------------ *)

\* the object: recorded width and height, and the array
Model(w0, h0, a) == [w |-> w0, h |-> h0, arr |-> a]

\* what a method call gives back: the object after the call, the exception
\* raised (NoError when none) and the value returned or written
Result(self, e, v) == [self |-> self, err |-> e, val |-> v]

\* AtlasModel.__init__(w0, h0)
AtlasModel(w0, h0) ==
  LET z == np_zeros(h0, w0)
  IN Result(Model(w0, h0, z.arr), z.err, <<>>)

\* load_raw with the length test weakened to "too short"
load_raw_short(self, data, w0, h0) ==
  LET expected == w0 * h0 * 4
  IN IF Len(data) < expected
       THEN Result(self,
                   [kind |-> "SizeMismatch", expected |-> expected, actual |-> Len(data)],
                   <<>>)
       ELSE LET r == reshape(data, h0, w0)
            IN IF r.err # NoError
                 THEN Result(Model(w0, h0, self.arr), r.err, <<>>)
                 ELSE Result(Model(w0, h0, r.arr), NoError, data)

\* AtlasModel.load_raw(path, w0, h0), data being the bytes of the file
load_raw(self, data, w0, h0) ==
  LET expected == w0 * h0 * 4
  IN IF Len(data) # expected
       THEN Result(self,
                   [kind |-> "SizeMismatch", expected |-> expected, actual |-> Len(data)],
                   <<>>)
       ELSE LET r == reshape(data, h0, w0)
            IN IF r.err # NoError
                 THEN Result(Model(w0, h0, self.arr), r.err, <<>>)
                 ELSE Result(Model(w0, h0, r.arr), NoError, data)

\* AtlasModel.save_raw(path): val is the bytes written to the file
save_raw(self) == Result(self, NoError, tofile(self.arr))

\* set_pixel marking the cell with the opaque alpha 255 instead of 1
set_pixel_opaque(self, x, y, rgb) ==
  IF ~(IndexOK(y, self.arr.H) /\ IndexOK(x, self.arr.W))
    THEN Result(self, Raise("OutOfBounds"), <<>>)
    ELSE Result(Model(self.w, self.h,
                      SetItem(self.arr, y, x, <<rgb[1], rgb[2], rgb[3], 255>>)),
                NoError, <<>>)

\* AtlasModel.set_pixel(x, y, rgb)
set_pixel(self, x, y, rgb) ==
  IF ~(IndexOK(y, self.arr.H) /\ IndexOK(x, self.arr.W))
    THEN Result(self, Raise("OutOfBounds"), <<>>)
    ELSE LET a1 == SetItem(self.arr, y, x,
                     <<rgb[1], rgb[2], rgb[3], GetItem(self.arr, y, x)[4]>>)
             c1 == GetItem(a1, y, x)
             a2 == SetItem(a1, y, x, <<c1[1], c1[2], c1[3], 1>>)
         IN Result(Model(self.w, self.h, a2), NoError, <<>>)

\* the test of set_char: VISIBLE_ASCII_MIN <= code <= VISIBLE_ASCII_MAX
VisibleAscii(code) == VISIBLE_ASCII_MIN <= code /\ code <= VISIBLE_ASCII_MAX

\* set_char writing the colour before it tests the character
set_char_late_check(self, x, y, ch, rgb) ==
  IF Len(ch) # 1
    THEN Result(self, Raise("NotSingleCharacter"), <<>>)
    ELSE IF ~(IndexOK(y, self.arr.H) /\ IndexOK(x, self.arr.W))
      THEN Result(self, Raise("OutOfBounds"), <<>>)
      ELSE LET code == ch[1]
               a1 == SetItem(self.arr, y, x,
                       <<rgb[1], rgb[2], rgb[3], GetItem(self.arr, y, x)[4]>>)
           IN IF ~VisibleAscii(code)
                THEN Result(Model(self.w, self.h, a1), Raise("NonVisibleCharacter"), <<>>)
                ELSE Result(Model(self.w, self.h,
                                  SetItem(a1, y, x, <<rgb[1], rgb[2], rgb[3], code>>)),
                            NoError, <<>>)

\* set_char without the test of the character's code
set_char_unchecked(self, x, y, ch, rgb) ==
  IF Len(ch) # 1
    THEN Result(self, Raise("NotSingleCharacter"), <<>>)
    ELSE IF ~(IndexOK(y, self.arr.H) /\ IndexOK(x, self.arr.W))
           THEN Result(self, Raise("OutOfBounds"), <<>>)
           ELSE Result(Model(self.w, self.h,
                             SetItem(self.arr, y, x, <<rgb[1], rgb[2], rgb[3], ch[1] % 256>>)),
                       NoError, <<>>)

\* AtlasModel.set_char(x, y, ch, rgb); ch is a string (its code points)
set_char(self, x, y, ch, rgb) ==
  IF Len(ch) # 1
    THEN Result(self, Raise("NotSingleCharacter"), <<>>)
    ELSE LET code == ch[1]
         IN IF ~VisibleAscii(code)
              THEN Result(self, Raise("NonVisibleCharacter"), <<>>)
              ELSE IF ~(IndexOK(y, self.arr.H) /\ IndexOK(x, self.arr.W))
                     THEN Result(self, Raise("OutOfBounds"), <<>>)
                     ELSE LET a1 == SetItem(self.arr, y, x,
                                      <<rgb[1], rgb[2], rgb[3], GetItem(self.arr, y, x)[4]>>)
                              c1 == GetItem(a1, y, x)
                              a2 == SetItem(a1, y, x, <<c1[1], c1[2], c1[3], code>>)
                          IN Result(Model(self.w, self.h, a2), NoError, <<>>)

\* AtlasModel.clear(x, y)
clear(self, x, y) ==
  IF ~(IndexOK(y, self.arr.H) /\ IndexOK(x, self.arr.W))
    THEN Result(self, Raise("OutOfBounds"), <<>>)
    ELSE Result(Model(self.w, self.h, SetItem(self.arr, y, x, <<0, 0, 0, 0>>)), NoError, <<>>)

\* one element of valid_mask: (a==0) | (a==1) | ((a>=MIN) & (a<=MAX))
valid_alpha(a) == (a = 0) \/ (a = 1) \/ ((a >= VISIBLE_ASCII_MIN) /\ (a <= VISIBLE_ASCII_MAX))

\* AtlasModel.valid_mask(): a boolean array of shape (H, W)
valid_mask(self) ==
  [y \in 0..(self.arr.H - 1) |-> [x \in 0..(self.arr.W - 1) |-> valid_alpha(self.arr.c[y][x][4])]]

\* AtlasPaintApp.validate_atlas(): the counts it shows, (total - bad, total)
validate_atlas(self) ==
  LET ok    == valid_mask(self)
      total == self.arr.H * self.arr.W
      bad   == Cardinality({p \in (0..(self.arr.H - 1)) \X (0..(self.arr.W - 1)) : ~ok[p[1]][p[2]]})
  IN Result(self, NoError, <<total - bad, total>>)

\* the chain of export_preview_image with the upper glyph test made strict
preview_branch_strict(a) ==
  IF a = 0 THEN "nothing"
  ELSE IF a = 1 THEN "rectangle"
  ELSE IF VISIBLE_ASCII_MIN <= a /\ a < VISIBLE_ASCII_MAX THEN "text"
  ELSE "hatch"

\* the if/elif chain of export_preview_image: what is drawn for alpha a
preview_branch(a) ==
  IF a = 0 THEN "nothing"
  ELSE IF a = 1 THEN "rectangle"
  ELSE IF VISIBLE_ASCII_MIN <= a /\ a <= VISIBLE_ASCII_MAX THEN "text"
  ELSE "hatch"

\* AtlasModel.export_preview_image(): what is drawn for each cell of
\* range(h) x range(w); Image.new refuses a negative size
export_preview_image(self) ==
  IF self.w < 0 \/ self.h < 0
    THEN Result(self, Raise("ImageSize"), <<>>)
    ELSE Result(self, NoError,
           [y \in 0..(self.h - 1) |-> [x \in 0..(self.w - 1) |->
              preview_branch(self.arr.c[y][x][4])]])

\* the if/elif chain of _draw_cell: what the canvas shows for alpha a
draw_cell_branch(a) ==
  IF a = 0 THEN "nothing"
  ELSE IF a = 1 THEN "rectangle"
  ELSE IF VISIBLE_ASCII_MIN <= a /\ a <= VISIBLE_ASCII_MAX THEN "text"
  ELSE "hatch"

\* AtlasPaintApp._redraw_all(): _draw_cell for each cell of range(h) x range(w)
redraw_all(self) ==
  Result(self, NoError,
    [y \in 0..(self.h - 1) |-> [x \in 0..(self.w - 1) |->
       draw_cell_branch(self.arr.c[y][x][4])]])

(* --------------------------- AtlasPaintApp ---------------------------- *)

\* an optional value: None, or the one-element sequence holding the value
None == <<>>

\* the exceptions of set_char that "except ValueError" catches
IsValueError(e) == e.kind \in { "NotSingleCharacter", "NonVisibleCharacter" }

\* AtlasPaintApp.__init__: the fields of a new application whose model is
\* AtlasModel(w0, h0)
AtlasPaintApp(w0, h0) ==
  [ model             |-> AtlasModel(w0, h0).self,
    file_path         |-> None,
    mode              |-> "pencil",
    current_color     |-> <<0, 255, 0>>,
    last_char         |-> <<65>>,
    stamp_lines       |-> <<>>,
    stamp_w           |-> 0,
    stamp_h           |-> 0,
    stamp_space_clear |-> TRUE ]

\* self.model after a call on it gave back r
WithModel(self, r) == [self EXCEPT !.model = r.self]

\* parse_xy(event): the cell under pixel (ex, ey), or None outside the
\* recorded grid; self.cell stays at DEFAULT_CELL (zooming is left out)
parse_xy(self, ex, ey) ==
  LET x == ex \div DEFAULT_CELL
      y == ey \div DEFAULT_CELL
  IN IF 0 <= x /\ x < self.model.w /\ 0 <= y /\ y < self.model.h
       THEN <<x, y>>
       ELSE None

\* the body of the loops of stamp_at for character code ch at cell (cx, cy);
\* a ValueError of set_char is passed over, any other exception escapes
stamp_cell(self, cx, cy, ch) ==
  IF ch = 32
    THEN IF self.stamp_space_clear
           THEN LET r == clear(self.model, cx, cy)
                IN Result(WithModel(self, r), r.err, <<>>)
           ELSE LET r == set_char(self.model, cx, cy, <<32>>, self.current_color)
                IN Result(WithModel(self, r),
                          IF IsValueError(r.err) THEN NoError ELSE r.err, <<>>)
    ELSE LET r == set_char(self.model, cx, cy, <<ch>>, self.current_color)
         IN Result(WithModel(self, r),
                   IF IsValueError(r.err) THEN NoError ELSE r.err, <<>>)

\* for j in range(hlim): for i in range(wlim): ..., from iteration k on
\* (j = k div wlim, i = k mod wlim); an escaping exception ends the loops
RECURSIVE stamp_loops(_, _, _, _, _, _)
stamp_loops(self, x, y, wlim, hlim, k) ==
  IF k >= wlim * hlim
    THEN Result(self, NoError, <<>>)
    ELSE LET j  == k \div wlim
             i  == k % wlim
             ch == self.stamp_lines[j + 1][i + 1]
             r  == stamp_cell(self, x + i, y + j, ch)
         IN IF r.err # NoError
              THEN r
              ELSE stamp_loops(r.self, x, y, wlim, hlim, k + 1)

\* the smaller of two integers
min(a, b) == IF a <= b THEN a ELSE b

\* stamp_at that places the whole stamp, without clipping it at the grid
stamp_at_unclipped(self, x, y) ==
  IF ~(self.stamp_w # 0 /\ self.stamp_h # 0 /\ self.stamp_lines # <<>>)
    THEN Result(self, NoError, <<"Stamp">>)
    ELSE stamp_loops(self, x, y, self.stamp_w, self.stamp_h, 0)

\* stamp_at(x, y); val is the dialog shown
stamp_at(self, x, y) ==
  IF ~(self.stamp_w # 0 /\ self.stamp_h # 0 /\ self.stamp_lines # <<>>)
    THEN Result(self, NoError, <<"Stamp">>)
    ELSE LET wlim == min(self.model.w - x, self.stamp_w)
             hlim == min(self.model.h - y, self.stamp_h)
         IN IF wlim <= 0 \/ hlim <= 0
              THEN Result(self, NoError, <<>>)
              ELSE stamp_loops(self, x, y, wlim, hlim, 0)

\* on_left_click(event) at pixel (ex, ey); val is the dialog shown
on_left_click(self, ex, ey) ==
  LET pos == parse_xy(self, ex, ey)
  IN IF pos = None
       THEN Result(self, NoError, <<>>)
       ELSE LET x == pos[1]
                y == pos[2]
            IN CASE self.mode = "pencil" ->
                      LET r == set_pixel(self.model, x, y, self.current_color)
                      IN Result(WithModel(self, r), r.err, <<>>)
                 [] self.mode = "text" ->
                      LET r == set_char(self.model, x, y, self.last_char, self.current_color)
                      IN IF IsValueError(r.err)
                           THEN Result(WithModel(self, r), NoError, <<"Invalid char">>)
                           ELSE Result(WithModel(self, r), r.err, <<>>)
                 [] self.mode = "stamp" -> stamp_at(self, x, y)
                 [] OTHER -> Result(self, NoError, <<>>)

\* on_left_drag(event) at pixel (ex, ey): as the click, but a rejected
\* character is passed over silently
on_left_drag(self, ex, ey) ==
  LET pos == parse_xy(self, ex, ey)
  IN IF pos = None
       THEN Result(self, NoError, <<>>)
       ELSE LET x == pos[1]
                y == pos[2]
            IN CASE self.mode = "pencil" ->
                      LET r == set_pixel(self.model, x, y, self.current_color)
                      IN Result(WithModel(self, r), r.err, <<>>)
                 [] self.mode = "text" ->
                      LET r == set_char(self.model, x, y, self.last_char, self.current_color)
                      IN Result(WithModel(self, r),
                                IF IsValueError(r.err) THEN NoError ELSE r.err, <<>>)
                 [] self.mode = "stamp" -> stamp_at(self, x, y)
                 [] OTHER -> Result(self, NoError, <<>>)

\* on_right_click(event) at pixel (ex, ey)
on_right_click(self, ex, ey) ==
  LET pos == parse_xy(self, ex, ey)
  IN IF pos = None
       THEN Result(self, NoError, <<>>)
       ELSE LET r == clear(self.model, pos[1], pos[2])
            IN Result(WithModel(self, r), r.err, <<>>)

\* on_key that takes any single character, visible or not
on_key_any(self, char) ==
  IF char # <<>> /\ Len(char) = 1
    THEN Result([self EXCEPT !.last_char = char], NoError, <<>>)
    ELSE Result(self, NoError, <<>>)

\* on_key(event); char is event.char (its code points)
on_key(self, char) ==
  IF char # <<>> /\ Len(char) = 1
    THEN IF VisibleAscii(char[1])
           THEN Result([self EXCEPT !.last_char = char], NoError, <<>>)
           ELSE Result(self, NoError, <<>>)
    ELSE Result(self, NoError, <<>>)

\* the first character of s that passes the test of on_paste, or None
first_visible(s) ==
  LET at == { i \in 1..Len(s) : VisibleAscii(s[i]) }
  IN IF at = {}
       THEN None
       ELSE << s[CHOOSE i \in at : \A k \in at : i <= k] >>

\* on_paste(); clip is None when clipboard_get() raises, else the text
on_paste(self, clip) ==
  IF clip = None
    THEN Result(self, NoError, <<>>)
    ELSE LET s == clip[1]
         IN IF s = <<>>
              THEN Result(self, NoError, <<>>)
              ELSE IF first_visible(s) = None
                     THEN Result(self, NoError, <<"Paste">>)
                     ELSE Result([self EXCEPT !.last_char = first_visible(s)], NoError, <<>>)

\* pick_color(); color is None when the chooser is cancelled
pick_color(self, color) ==
  IF color = None
    THEN Result(self, NoError, <<>>)
    ELSE Result([self EXCEPT !.current_color = color[1]], NoError, <<>>)

\* _set_mode(mode), and the radio buttons on self.mode
_set_mode(self, m) == Result([self EXCEPT !.mode = m], NoError, <<>>)

\* the "Spaces = Clear" check button on self.stamp_space_clear
spaces_clear_button(self) ==
  Result([self EXCEPT !.stamp_space_clear = ~self.stamp_space_clear], NoError, <<>>)

\* new_atlas(); w_in and h_in are the answers of askinteger (None: cancelled)
new_atlas(self, w_in, h_in) ==
  IF w_in = None \/ h_in = None
    THEN Result(self, NoError, <<>>)
    ELSE LET r == AtlasModel(w_in[1], h_in[1])
         IN IF r.err # NoError
              THEN Result(self, r.err, <<>>)
              ELSE Result([self EXCEPT !.model = r.self, !.file_path = None], NoError, <<>>)

\* open_atlas(); path is the file chosen ("": cancelled), data its bytes
open_atlas(self, path, data, w_in, h_in) ==
  IF path = "" \/ w_in = None \/ h_in = None
    THEN Result(self, NoError, <<>>)
    ELSE LET r == load_raw(self.model, data, w_in[1], h_in[1])
         IN IF r.err # NoError
              THEN Result(WithModel(self, r), NoError, <<"Open failed">>)
              ELSE Result([self EXCEPT !.model = r.self, !.file_path = <<path>>],
                          NoError, <<>>)

\* main(): the optional startup file, python atlas_paint.py path w0 h0
main(self, path, data, w0, h0) ==
  LET r == load_raw(self.model, data, w0, h0)
  IN IF r.err # NoError
       THEN Result(WithModel(self, r), NoError, <<"Startup open failed">>)
       ELSE Result([self EXCEPT !.model = r.self, !.file_path = <<path>>], NoError, <<>>)

\* the characters of a line that import_ascii_art keeps
kept(line) == SelectSeq(line, VisibleAscii)

\* while filt and len(filt[0]) == 0: filt.pop(0)
RECURSIVE pop_leading(_)
pop_leading(filt) ==
  IF filt # <<>> /\ Len(Head(filt)) = 0 THEN pop_leading(Tail(filt)) ELSE filt

\* while filt and len(filt[-1]) == 0: filt.pop()
RECURSIVE pop_trailing(_)
pop_trailing(filt) ==
  IF filt # <<>> /\ Len(filt[Len(filt)]) = 0
    THEN pop_trailing(SubSeq(filt, 1, Len(filt) - 1))
    ELSE filt

\* ln.ljust(n, " ")
ljust(ln, n) == ln \o [i \in 1..(n - Len(ln)) |-> 32]

\* max_w = max(max_w, len(s)) over the lines, from 0
max_len(lines) ==
  IF lines = <<>>
    THEN 0
    ELSE LET lens == { Len(lines[k]) : k \in 1..Len(lines) }
         IN CHOOSE m \in lens : \A n \in lens : n <= m

\* import_ascii_art(); path is the file chosen ("": cancelled), raw_lines
\* its text after splitlines()
import_ascii_art(self, path, raw_lines) ==
  IF path = ""
    THEN Result(self, NoError, <<>>)
    ELSE LET filt   == [k \in 1..Len(raw_lines) |-> kept(raw_lines[k])]
             max_w  == max_len(filt)
             rest   == pop_trailing(pop_leading(filt))
             padded == [k \in 1..Len(rest) |-> ljust(rest[k], max_w)]
         IN IF rest = <<>>
              THEN Result(self, NoError, <<"Import">>)
              ELSE Result([self EXCEPT !.stamp_lines = padded,
                                       !.stamp_w = max_w,
                                       !.stamp_h = Len(padded),
                                       !.mode = "stamp"],
                          NoError, <<>>)

(* ----------------------------- the calls ------------------------------ *)

Self == Model(w, h, arr)

\* a call can still be made in this run
CanCall == nops < MaxOps

\* the state after a call that gave back r
Returns(op, r) ==
  /\ LET res == r
     IN /\ w' = res.self.w
        /\ h' = res.self.h
        /\ arr' = res.self.arr
        /\ ret' = [op |-> op, err |-> res.err, val |-> res.val]
  /\ nops' = nops + 1
  /\ UNCHANGED appvars

\* self.model = AtlasModel(w0, h0): the old object stays when it raises
New(w0, h0) ==
  /\ CanCall
  /\ LET r == AtlasModel(w0, h0)
     IN Returns("AtlasModel", IF r.err = NoError THEN r ELSE Result(Self, r.err, <<>>))

LoadRaw(data, w0, h0) ==
  /\ CanCall
  /\ Returns("load_raw", load_raw(Self, data, w0, h0))

SaveRaw ==
  /\ CanCall
  /\ Returns("save_raw", save_raw(Self))

SetPixel(x, y, rgb) ==
  /\ CanCall
  /\ Returns("set_pixel", set_pixel(Self, x, y, rgb))

SetChar(x, y, ch, rgb) ==
  /\ CanCall
  /\ Returns("set_char", set_char(Self, x, y, ch, rgb))

Clear(x, y) ==
  /\ CanCall
  /\ Returns("clear", clear(Self, x, y))

Validate ==
  /\ CanCall
  /\ Returns("validate_atlas", validate_atlas(Self))

ExportPreview ==
  /\ CanCall
  /\ Returns("export_preview_image", export_preview_image(Self))

RedrawAll ==
  /\ CanCall
  /\ Returns("redraw_all", redraw_all(Self))

\* the application starts with a freshly constructed all-zero buffer
\* (AtlasModel(DEFAULT_W, DEFAULT_H); the sizes here run over 1..MaxDim)
Init ==
  \E w0 \in 1..MaxDim, h0 \in 1..MaxDim :
    /\ w = w0
    /\ h = h0
    /\ arr = AtlasModel(w0, h0).self.arr
    /\ ret = [op |-> "AtlasModel", err |-> NoError, val |-> <<>>]
    /\ nops = 0
    /\ file_path = AtlasPaintApp(w0, h0).file_path
    /\ mode = AtlasPaintApp(w0, h0).mode
    /\ current_color = AtlasPaintApp(w0, h0).current_color
    /\ last_char = AtlasPaintApp(w0, h0).last_char
    /\ stamp_lines = AtlasPaintApp(w0, h0).stamp_lines
    /\ stamp_w = AtlasPaintApp(w0, h0).stamp_w
    /\ stamp_h = AtlasPaintApp(w0, h0).stamp_h
    /\ stamp_space_clear = AtlasPaintApp(w0, h0).stamp_space_clear

Next ==
  \/ \E w0 \in DimArgs, h0 \in DimArgs : New(w0, h0)
  \/ \E data \in Files, w0 \in DimArgs, h0 \in DimArgs : LoadRaw(data, w0, h0)
  \/ SaveRaw
  \/ \E x \in CoordArgs(arr.W), y \in CoordArgs(arr.H), rgb \in RGBs : SetPixel(x, y, rgb)
  \/ \E x \in CoordArgs(arr.W), y \in CoordArgs(arr.H), ch \in Strs, rgb \in RGBs : SetChar(x, y, ch, rgb)
  \/ \E x \in CoordArgs(arr.W), y \in CoordArgs(arr.H) : Clear(x, y)
  \/ Validate
  \/ ExportPreview
  \/ RedrawAll

Spec == Init /\ [][Next]_vars

(* --------------------------- the event loop --------------------------- *)

\* the application object
App ==
  [ model             |-> Self,
    file_path         |-> file_path,
    mode              |-> mode,
    current_color     |-> current_color,
    last_char         |-> last_char,
    stamp_lines       |-> stamp_lines,
    stamp_w           |-> stamp_w,
    stamp_h           |-> stamp_h,
    stamp_space_clear |-> stamp_space_clear ]

\* the event loop can still dispatch an event in this run
CanHandle == nops < MaxEvents

\* the state after a handler that gave back r
Handled(op, r) ==
  /\ LET res == r
     IN /\ w' = res.self.model.w
        /\ h' = res.self.model.h
        /\ arr' = res.self.model.arr
        /\ file_path' = res.self.file_path
        /\ mode' = res.self.mode
        /\ current_color' = res.self.current_color
        /\ last_char' = res.self.last_char
        /\ stamp_lines' = res.self.stamp_lines
        /\ stamp_w' = res.self.stamp_w
        /\ stamp_h' = res.self.stamp_h
        /\ stamp_space_clear' = res.self.stamp_space_clear
        /\ ret' = [op |-> op, err |-> res.err, val |-> res.val]
  /\ nops' = nops + 1

\* main() loads the file named on the command line before the event loop
Main(path, data, w0, h0) ==
  /\ nops = 0
  /\ Handled("main", main(App, path, data, w0, h0))

LeftClick(ex, ey) ==
  /\ CanHandle
  /\ Handled("on_left_click", on_left_click(App, ex, ey))

LeftDrag(ex, ey) ==
  /\ CanHandle
  /\ Handled("on_left_drag", on_left_drag(App, ex, ey))

RightClick(ex, ey) ==
  /\ CanHandle
  /\ Handled("on_right_click", on_right_click(App, ex, ey))

KeyPress(char) ==
  /\ CanHandle
  /\ Handled("on_key", on_key(App, char))

Paste(clip) ==
  /\ CanHandle
  /\ Handled("on_paste", on_paste(App, clip))

PickColor(color) ==
  /\ CanHandle
  /\ Handled("pick_color", pick_color(App, color))

SetMode(m) ==
  /\ CanHandle
  /\ Handled("_set_mode", _set_mode(App, m))

SpacesClearButton ==
  /\ CanHandle
  /\ Handled("spaces_clear_button", spaces_clear_button(App))

NewAtlas(w_in, h_in) ==
  /\ CanHandle
  /\ Handled("new_atlas", new_atlas(App, w_in, h_in))

OpenAtlas(path, data, w_in, h_in) ==
  /\ CanHandle
  /\ Handled("open_atlas", open_atlas(App, path, data, w_in, h_in))

ImportAsciiArt(path, raw_lines) ==
  /\ CanHandle
  /\ Handled("import_ascii_art", import_ascii_art(App, path, raw_lines))

\* a dialog that follows a cancelled one is not shown, and the file is
\* read only once every dialog is answered
AppNext ==
  \/ \E path \in Paths \ { "" }, data \in AppFiles, w0 \in DimArgs, h0 \in DimArgs :
       Main(path, data, w0, h0)
  \/ \E ex \in PixelArgs(arr.W), ey \in PixelArgs(arr.H) : LeftClick(ex, ey)
  \/ \E ex \in PixelArgs(arr.W), ey \in PixelArgs(arr.H) : LeftDrag(ex, ey)
  \/ \E ex \in PixelArgs(arr.W), ey \in PixelArgs(arr.H) : RightClick(ex, ey)
  \/ \E char \in KeyChars : KeyPress(char)
  \/ \E clip \in Clipboards : Paste(clip)
  \/ \E color \in Colors : PickColor(color)
  \/ \E m \in Modes : SetMode(m)
  \/ SpacesClearButton
  \/ \E w_in \in Asked :
       \E h_in \in (IF w_in = None THEN { None } ELSE Asked) :
         NewAtlas(w_in, h_in)
  \/ \E path \in Paths :
       \E w_in \in (IF path = "" THEN { None } ELSE Asked) :
         \E h_in \in (IF w_in = None THEN { None } ELSE Asked) :
           \E data \in (IF h_in = None THEN { <<>> } ELSE AppFiles) :
             OpenAtlas(path, data, w_in, h_in)
  \/ \E path \in { "", "art.txt" } :
       \E raw_lines \in (IF path = "" THEN { <<>> } ELSE AsciiArts) :
         ImportAsciiArt(path, raw_lines)

AppSpec == Init /\ [][AppNext]_vars

(* ------------------------------ claims -------------------------------- *)

\* the grid of the claims: 0 <= x < width and 0 <= y < height
InGrid(x, y) == 0 <= x /\ x < w /\ 0 <= y /\ y < h

\* the kinds of the alpha table
IsClear(a) == a = 0

IsSolid(a) == a = 1

IsGlyph(a) == 32 <= a /\ a <= 126

IsInvalid(a) == (2 <= a /\ a <= 31) \/ (127 <= a /\ a <= 255)

\* a string of one character whose code is outside [32,126]
NonVisible(ch) == Len(ch) = 1 /\ (ch[1] < 32 \/ ch[1] > 126)

\* a string of one character whose code is in [32,126]
Visible(ch) == Len(ch) = 1 /\ 32 <= ch[1] /\ ch[1] <= 126

\* the cells of the stored grid, as (y, x) pairs
StoredCells == { p \in (DOMAIN arr.c) \X (0..(arr.W - 1)) : p[2] \in DOMAIN arr.c[p[1]] }

\* C1: set_pixel, set_char (with a visible character) and clear, called in
\* any state where a call can be made, with a coordinate outside
\* [0,width) x [0,height), negative ones included, fail with OutOfBounds
\* and leave the object as it was.
C1_OutOfBoundsIsTotal ==
  \A x \in CoordArgs(arr.W), y \in CoordArgs(arr.H) :
    (CanCall /\ ~InGrid(x, y)) =>
      /\ \A rgb \in RGBs :
           LET r == set_pixel(Self, x, y, rgb)
           IN r.err.kind = "OutOfBounds" /\ r.self = Self
      /\ \A rgb \in RGBs, ch \in {s \in Strs : Visible(s)} :
           LET r == set_char(Self, x, y, ch, rgb)
           IN r.err.kind = "OutOfBounds" /\ r.self = Self
      /\ LET r == clear(Self, x, y)
         IN r.err.kind = "OutOfBounds" /\ r.self = Self

\* C2: the bytes save_raw has just written load back, with the buffer's
\* width and height, to the same width, height and cells; and the bytes
\* load_raw has just decoded are the bytes save_raw writes.
C2_RoundTrip ==
  /\ ret.op = "save_raw" =>
       LET r == load_raw(Self, ret.val, w, h)
       IN r.err = NoError /\ r.self = Self
  /\ (ret.op = "load_raw" /\ ret.err = NoError) =>
       save_raw(Self).val = ret.val

\* C3: for w0, h0 >= 1, load_raw succeeds iff the file holds w0*h0*4 bytes;
\* otherwise it raises SizeMismatch with the expected and the actual count;
\* when it succeeds every alpha byte is stored as it is in the file.
C3_LoadChecksLengthOnly ==
  \A data \in Files, w0 \in 1..MaxDim, h0 \in 1..MaxDim :
    CanCall =>
    LET r == load_raw(Self, data, w0, h0)
    IN /\ (r.err = NoError) <=> (Len(data) = w0 * h0 * 4)
       /\ Len(data) # w0 * h0 * 4 =>
            r.err = [kind |-> "SizeMismatch", expected |-> w0 * h0 * 4, actual |-> Len(data)]
       /\ Len(data) = w0 * h0 * 4 =>
            /\ r.self.w = w0 /\ r.self.h = h0
            /\ \A x \in 0..(w0 - 1), y \in 0..(h0 - 1) :
                 r.self.arr.c[y][x][4] = data[(y * w0 + x) * 4 + 4]

\* a successful load of a buffer that holds an alpha outside the three
\* legal classes
C3_Witness ==
  /\ ret.op = "load_raw" /\ ret.err = NoError
  /\ w >= 1 /\ h >= 1
  /\ \E p \in StoredCells : IsInvalid(arr.c[p[1]][p[2]][4])

\* the alpha table, for all 256 byte values: every byte has exactly one
\* kind, valid_mask is true exactly for the kinds other than Invalid, and
\* the preview exporter and the canvas renderer draw nothing for Clear, a
\* rectangle for Solid, text for Glyph and the error marker for Invalid
AlphaTable ==
  \A a \in 0..255 :
    /\ Cardinality({k \in {"Clear", "Solid", "Glyph", "Invalid"} :
          \/ k = "Clear" /\ IsClear(a)
          \/ k = "Solid" /\ IsSolid(a)
          \/ k = "Glyph" /\ IsGlyph(a)
          \/ k = "Invalid" /\ IsInvalid(a)}) = 1
    /\ valid_alpha(a) <=> ~IsInvalid(a)
    /\ \A b \in {preview_branch(a), draw_cell_branch(a)} :
         /\ (b = "nothing") <=> IsClear(a)
         /\ (b = "rectangle") <=> IsSolid(a)
         /\ (b = "text") <=> IsGlyph(a)
         /\ (b = "hatch") <=> IsInvalid(a)

\* C4: classification by alpha is total, disjoint and the same wherever
\* the code dispatches on alpha (AlphaTable); and in what the exporter or
\* the canvas has just drawn, the error marker is exactly on the cells
\* valid_mask reports as invalid.
C4_ClassificationAgrees ==
  /\ AlphaTable
  /\ (ret.op \in {"export_preview_image", "redraw_all"} /\ ret.err = NoError) =>
       \A y \in 0..(h - 1), x \in 0..(w - 1) :
         (ret.val[y][x] = "hatch") <=> ~valid_mask(Self)[y][x]

\* a preview has been drawn of a buffer that holds an invalid and a glyph cell
C4_Witness ==
  /\ ret.op = "export_preview_image" /\ ret.err = NoError
  /\ \E y \in 0..(h - 1), x \in 0..(w - 1) : ret.val[y][x] = "hatch"
  /\ \E y \in 0..(h - 1), x \in 0..(w - 1) : ret.val[y][x] = "text"

\* C5: set_char on a cell of the grid with one character whose code is
\* outside [32,126] raises NonVisibleCharacter and leaves every byte of
\* every cell, and the width and height, as they were.
C5_SetGlyphRejects ==
  \A x \in CoordArgs(arr.W), y \in CoordArgs(arr.H) :
    (CanCall /\ InGrid(x, y)) =>
      \A rgb \in RGBs, ch \in {s \in Strs : NonVisible(s)} :
        LET r == set_char(Self, x, y, ch, rgb)
        IN r.err.kind = "NonVisibleCharacter" /\ r.self = Self

\* set_char has just rejected a character on a buffer with cells to
\* preserve that are not all zero
C5_Witness ==
  /\ ret.op = "set_char" /\ ret.err.kind = "NonVisibleCharacter"
  /\ w >= 1 /\ h >= 1
  /\ \E p \in StoredCells : arr.c[p[1]][p[2]] # <<0, 0, 0, 0>>

\* C6: set_pixel on a cell of the grid succeeds and the cell is then
\* exactly (r, g, b, 1), whatever it held before.
C6_SetSolidYieldsSolid ==
  \A x \in CoordArgs(arr.W), y \in CoordArgs(arr.H) :
    (CanCall /\ InGrid(x, y)) =>
      \A rgb \in RGBs :
        LET r == set_pixel(Self, x, y, rgb)
        IN /\ r.err = NoError
           /\ r.self.arr.c[y][x] = <<rgb[1], rgb[2], rgb[3], 1>>
           /\ IsSolid(r.self.arr.c[y][x][4])

\* set_pixel has just written a solid cell into a buffer that was loaded
\* with invalid content
C6_Witness ==
  /\ ret.op = "set_pixel" /\ ret.err = NoError
  /\ \E p \in StoredCells : arr.c[p[1]][p[2]] \in { <<10, 20, 30, 1>>, <<1, 2, 3, 1>> }
  /\ \E p \in StoredCells : IsInvalid(arr.c[p[1]][p[2]][4])

\* C7: a construction either fails with InvalidDimensions or was given a
\* width and a height >= 1 and has made width*height cells, all (0,0,0,0):
\* no construction with a non-positive width or height succeeds.
C7_InvalidDimensions ==
  ret.op = "AtlasModel" =>
    IF ret.err = NoError
      THEN /\ w >= 1 /\ h >= 1
           /\ Cardinality(StoredCells) = w * h
           /\ \A p \in StoredCells : arr.c[p[1]][p[2]] = <<0, 0, 0, 0>>
      ELSE ret.err.kind = "InvalidDimensions"

\* C8: in every reachable state the stored grid has width*height cells and
\* its shape is the recorded height and width.
C8_CellCount ==
  /\ Cardinality(StoredCells) = w * h
  /\ arr.H = h
  /\ arr.W = w

\* C9: validation reports (validCount, total) with total = width*height and
\* validCount the number of cells whose alpha is 0, 1 or in [32,126].
C9_ValidateCounts ==
  ret.op = "validate_atlas" =>
    /\ ret.err = NoError
    /\ ret.val[2] = w * h
    /\ ret.val[1] = Cardinality({p \in StoredCells :
                       LET a == arr.c[p[1]][p[2]][4]
                       IN a = 0 \/ a = 1 \/ (32 <= a /\ a <= 126)})
    /\ validate_atlas(Self).val = ret.val

\* C10: save_raw writes exactly width*height*4 bytes, and the four bytes at
\* offsets (y*width+x)*4 .. +3 are the (R,G,B,A) of cell (x,y).
C10_SaveLayout ==
  ret.op = "save_raw" =>
    /\ ret.err = NoError
    /\ Len(ret.val) = w * h * 4
    /\ \A x \in 0..(w - 1), y \in 0..(h - 1) :
         \A k \in 1..4 : ret.val[(y * w + x) * 4 + k] = arr.c[y][x][k]

\* the cells of array a whose alpha byte is Invalid, as (y, x) pairs
InvalidCells(a) ==
  { p \in (0..(a.H - 1)) \X (0..(a.W - 1)) : IsInvalid(a.c[p[1]][p[2]][4]) }

\* the stamp test of stamp_at: a stamp is loaded
StampLoaded == stamp_w # 0 /\ stamp_h # 0 /\ stamp_lines # <<>>

\* C11: no edit adds an Invalid cell: wherever an event can still be
\* handled, set_pixel, set_char (accepted or rejected) and clear with any
\* coordinate, the left click, left drag and right click at any pixel, and
\* stamp_at at any cell of the grid give a buffer whose Invalid cells are
\* among those it had; and while no file is loaded (the buffer began
\* all-Clear) every cell is valid: validate_atlas counts valid == total.
C11_EditsNeverInvalidate ==
  /\ CanHandle =>
       /\ \A x \in CoordArgs(arr.W), y \in CoordArgs(arr.H) :
            /\ InvalidCells(set_pixel(Self, x, y, current_color).self.arr) \subseteq InvalidCells(arr)
            /\ \A ch \in Strs :
                 InvalidCells(set_char(Self, x, y, ch, current_color).self.arr) \subseteq InvalidCells(arr)
            /\ InvalidCells(clear(Self, x, y).self.arr) \subseteq InvalidCells(arr)
       /\ \A ex \in PixelArgs(arr.W), ey \in PixelArgs(arr.H) :
            /\ InvalidCells(on_left_click(App, ex, ey).self.model.arr) \subseteq InvalidCells(arr)
            /\ InvalidCells(on_left_drag(App, ex, ey).self.model.arr) \subseteq InvalidCells(arr)
            /\ InvalidCells(on_right_click(App, ex, ey).self.model.arr) \subseteq InvalidCells(arr)
       /\ \A x \in 0..(w - 1), y \in 0..(h - 1) :
            InvalidCells(stamp_at(App, x, y).self.model.arr) \subseteq InvalidCells(arr)
  /\ file_path = None =>
       /\ InvalidCells(arr) = {}
       /\ validate_atlas(Self).val[1] = validate_atlas(Self).val[2]

\* a stamp has just been placed by a click on a loaded buffer that still
\* holds Invalid cells beside the stamped glyph
C11_Witness ==
  /\ ret.op = "on_left_click"
  /\ mode = "stamp"
  /\ StampLoaded
  /\ file_path # None
  /\ InvalidCells(arr) # {}
  /\ \E p \in StoredCells :
       arr.c[p[1]][p[2]] = current_color \o << stamp_lines[1][1] >>

\* C12: a load is all-or-nothing: a step of open_atlas or main that
\* reports a failed load leaves width, height, cells and the file path as
\* they were; any other step of them either changes none of these or
\* leaves exactly what load_raw decodes from one file, at the new width
\* and height, with the file path set.
C12_LoadAllOrNothing ==
  [][ ret'.op \in { "open_atlas", "main" } =>
        IF ret'.val # <<>>
          THEN w' = w /\ h' = h /\ arr' = arr /\ file_path' = file_path
          ELSE \/ w' = w /\ h' = h /\ arr' = arr /\ file_path' = file_path
               \/ /\ file_path' # None
                  /\ \E data \in AppFiles :
                       load_raw(Self, data, w', h') = Result(Model(w', h', arr'), NoError, data)
    ]_vars

\* C13: with a stamp loaded, stamp_at at a cell (x, y) of the grid raises
\* nothing, changes nothing but cells, and leaves at every cell (x+i, y+j)
\* with 0 <= i < min(width-x, stamp_w) and 0 <= j < min(height-y, stamp_h)
\* the stamp's character: Clear for a space when "Spaces = Clear" is on,
\* alpha 32 for a space otherwise, and the current colour with the
\* character's code for any other character; every other cell is as before.
C13_StampClips ==
  StampLoaded =>
    \A x \in 0..(w - 1), y \in 0..(h - 1) :
      LET r  == stamp_at(App, x, y)
          a  == r.self.model.arr
          wl == IF w - x <= stamp_w THEN w - x ELSE stamp_w
          hl == IF h - y <= stamp_h THEN h - y ELSE stamp_h
      IN /\ r.err = NoError
         /\ r.self = [App EXCEPT !.model.arr = a]
         /\ a.H = arr.H /\ a.W = arr.W
         /\ \A cy \in 0..(arr.H - 1), cx \in 0..(arr.W - 1) :
              IF x <= cx /\ cx < x + wl /\ y <= cy /\ cy < y + hl
                THEN LET ch == stamp_lines[cy - y + 1][cx - x + 1]
                     IN IF ch = 32
                          THEN IF stamp_space_clear
                                 THEN a.c[cy][cx] = <<0, 0, 0, 0>>
                                 ELSE a.c[cy][cx][4] = 32
                          ELSE a.c[cy][cx] = current_color \o <<ch>>
                ELSE a.c[cy][cx] = arr.c[cy][cx]

\* a click has just placed a stamp wider or taller than the grid, with
\* "Spaces = Clear" off: a space of the stamp is stored as a glyph cell
C13_Witness ==
  /\ ret.op = "on_left_click"
  /\ ret.err = NoError
  /\ mode = "stamp"
  /\ StampLoaded
  /\ stamp_w > w \/ stamp_h > h
  /\ ~stamp_space_clear
  /\ \E p \in StoredCells : arr.c[p[1]][p[2]] = current_color \o <<32>>
  /\ \E p \in StoredCells : arr.c[p[1]][p[2]] = current_color \o <<65>>

\* C14: last_char is always one character with code in [32,126]; so in
\* text mode set_char accepts it at every cell of the grid, and a left
\* click or drag on that cell shows no warning and leaves the cell holding
\* the current colour and the code of last_char.
C14_LastCharVisible ==
  /\ Len(last_char) = 1
  /\ 32 <= last_char[1] /\ last_char[1] <= 126
  /\ mode = "text" =>
       \A x \in 0..(w - 1), y \in 0..(h - 1) :
         LET ex == x * DEFAULT_CELL
             ey == y * DEFAULT_CELL + 1
         IN /\ set_char(Self, x, y, last_char, current_color).err = NoError
            /\ LET r == on_left_click(App, ex, ey)
               IN /\ r.err = NoError /\ r.val = <<>>
                  /\ r.self.model.arr.c[y][x] = current_color \o << last_char[1] >>
            /\ LET r == on_left_drag(App, ex, ey)
               IN /\ r.err = NoError /\ r.val = <<>>
                  /\ r.self.model.arr.c[y][x] = current_color \o << last_char[1] >>

\* a text-mode click has just written a character typed after the start
C14_Witness ==
  /\ ret.op = "on_left_click"
  /\ ret.val = <<>>
  /\ mode = "text"
  /\ last_char # AtlasPaintApp(w, h).last_char
  /\ \E p \in StoredCells :
       arr.c[p[1]][p[2]] = current_color \o << last_char[1] >>

====
